---- MODULE Spec2Model ----
(***************************************************************************)
(* The frontend API client of before-you-bet (frontend/src/lib/api.ts):     *)
(* fetchWithRetry, getHistory, getMarkets and getMarketsWithHistory, as a   *)
(* state machine of the JavaScript event loop.  One action is one run of    *)
(* the event loop: from the resumption of an await (a response arriving, a  *)
(* timer firing) through every synchronous statement and promise reaction   *)
(* that follows, up to the next suspension.                                 *)
(***************************************************************************)
EXTENDS Integers, Sequences, FiniteSets, TLC

\* ------------------------------------------------------------------ bounds
MaxMarkets == 2          \* longest market list the upstream answers with
MaxLimit == 2            \* largest limit argument tried
MaxNegLimit == 1         \* limits down to -MaxNegLimit are tried
MaxMaxRetries == 4       \* largest maxRetries argument of a direct fetchWithRetry call
MaxNegRetries == 1       \* maxRetries down to -MaxNegRetries are tried
MaxRecords == 3          \* longest candlestick array of a raw history response
MaxRuns == 2             \* fetchData runs of one page
PriceStep == 5           \* bid and ask are tried at the multiples of PriceStep and at the ends
ProbStep == 250          \* trueProbability is tried at the multiples of ProbStep / 10000
MaxClock == 2            \* milliseconds the exchange client's clock advances
MaxCalls == 4            \* outbound calls to the exchange
MaxAttempts == 3         \* attempts of one retry

\* ------------------------------------------------------- program constants
DashboardMaxRetries == 3        \* api.ts:91, second argument
DashboardBaseDelay == 1000      \* api.ts:91, third argument
DashboardLimit == 10            \* page.tsx:27, getMarketsWithHistory(10)

Tickers == {"A", "B", "C"}
BaseDelays == {DashboardBaseDelay, 250}
Limits == (0 - MaxNegLimit)..MaxLimit
RetryCounts == (0 - MaxNegRetries)..MaxMaxRetries

VARIABLES
    callPc,       \* getMarketsWithHistory: "idle", "awaitMarkets", "awaitAll", "returned", "failed"
    limit,        \* its argument
    marketsCalls, \* GET /markets requests issued so far (api.ts:6)
    fetched,      \* the array getMarkets returned (api.ts:85)
    markets,      \* marketsToFetch (api.ts:86)
    retry,        \* one record per running fetchWithRetry call, by item index
    settleOrder,  \* item indexes in the order their fetchWithRetry promises settled
    callResult,   \* the array getMarketsWithHistory returned
    callError,    \* the value getMarketsWithHistory rejected with
    normPc,       \* transformRawHistory on its own: "idle", "normalized", "renormalized"
    givenRaw,     \* the RawHistoryResponse it was given
    normalized,   \* the PriceHistory it returned
    renormalized, \* the PriceHistory of that one's own candles given back as raw records
    dash,         \* DashboardPage (page.tsx): its state and the calls its fetchData made
    detail,       \* TickerDetailPage (lookup/[ticker]/page.tsx): its state and fetchData runs
    shell,        \* AppShell (part_006) and the SplashScreen it renders (Badge.tsx)
    splashShown,  \* sessionStorage holds the item splashShown
    metrics,      \* DecisionMetricsEngine: the computeMetrics call made and its outcome
    exchange      \* MarketDataClient: the clock and the outbound calls to the exchange

apiVars == <<callPc, limit, marketsCalls, fetched, markets, retry, settleOrder, callResult, callError>>
normVars == <<normPc, givenRaw, normalized, renormalized>>
uiVars == <<dash, detail, shell, splashShown>>
backendVars == <<metrics, exchange>>
vars == <<callPc, limit, marketsCalls, fetched, markets, retry, settleOrder, callResult, callError,
          normPc, givenRaw, normalized, renormalized, dash, detail, shell, splashShown,
          metrics, exchange>>

\* --------------------------------------------------------------- values
\* JavaScript values that are thrown.  origin = <<r, n>> names the n-th call
\* of the fetch function of retry r as the place that raised the value.
Null == [isError |-> FALSE, name |-> "null", message |-> <<>>, origin |-> <<>>]
NoValue == [ticker |-> "", title |-> "", days |-> 0, candles |-> <<>>,
            price_change_30d |-> 0, price_change_pct |-> [num |-> 0, den |-> 1],
            origin |-> <<>>]

\* mutant: the array is used whole
Slice0_Whole(s, end) == s

\* mutant: a negative end gives the empty array
Slice0_NegativeIsEmpty(s, end) ==
    LET n == Len(s)
        k == IF end < 0 THEN 0 ELSE (IF end > n THEN n ELSE end)
    IN  SubSeq(s, 1, k)

\* Array.prototype.slice(0, end) on a sequence
Slice0(s, end) ==
    LET n == Len(s)
        k == IF end < 0 THEN (IF n + end < 0 THEN 0 ELSE n + end)
             ELSE (IF end > n THEN n ELSE end)
    IN  SubSeq(s, 1, k)

\* String(value) of a thrown primitive: its characters
StringOf(e) == e.message

\* mutant: every caught value is wrapped in a new Error
ToError_AlwaysWrap(e) ==
    [isError |-> TRUE, name |-> "Error", message |-> StringOf(e), origin |-> e.origin]

\* api.ts:59  error instanceof Error ? error : new Error(String(error))
ToError(e) ==
    IF e.isError THEN e
    ELSE [isError |-> TRUE, name |-> "Error", message |-> StringOf(e), origin |-> e.origin]

\* mutant: the loop runs one attempt too many
LoopCond_OffByOne(attempt, maxRetries) == attempt <= maxRetries

\* api.ts:55  the for-loop condition
LoopCond(attempt, maxRetries) == attempt < maxRetries

\* api.ts:60  whether a backoff wait follows the failed attempt
ShouldBackoff(attempt, maxRetries) == attempt < maxRetries - 1

\* mutant: linear instead of exponential backoff
BackoffDelay_Linear(baseDelay, attempt) == baseDelay * (attempt + 1)

\* api.ts:61  baseDelay * Math.pow(2, attempt)
BackoffDelay(baseDelay, attempt) == baseDelay * (2 ^ attempt)

\* ------------------------------------------------------ fetchWithRetry
\* api.ts:49-54  the frame of a fetchWithRetry call before its loop starts
NewRetry(fn, ticker, maxRetries, baseDelay) ==
    [fn |-> fn, ticker |-> ticker, maxRetries |-> maxRetries, baseDelay |-> baseDelay,
     attempt |-> 0, lastError |-> Null, pc |-> "start", result |-> NoValue,
     calls |-> 0,          \* invocations of fn so far
     failed |-> 0,         \* invocations of fn that rejected
     succeeded |-> 0,      \* invocations of fn that fulfilled
     outstanding |-> 0,    \* invocations of fn not yet settled
     timer |-> 0,          \* the pending setTimeout delay, 0 when none
     delays |-> <<>>,      \* the waits performed so far
     lastRaised |-> Null]  \* the value the latest failed invocation raised

\* api.ts:55-57,66  loop head: call fn and suspend on it, or leave the loop and throw
RetryLoop(st) ==
    IF LoopCond(st.attempt, st.maxRetries)
    THEN [st EXCEPT !.pc = "awaitFn", !.calls = @ + 1, !.outstanding = @ + 1]
    ELSE [st EXCEPT !.pc = "thrown"]

\* mutant: the value of fn is awaited but not returned, so the loop goes on
RetryOnResolve_NoReturn(st, v) ==
    RetryLoop([st EXCEPT !.outstanding = @ - 1, !.succeeded = @ + 1, !.attempt = @ + 1])

\* api.ts:57  return await fn()  when fn's promise fulfils with v
RetryOnResolve(st, v) ==
    [st EXCEPT !.pc = "returned", !.result = v, !.outstanding = @ - 1, !.succeeded = @ + 1]

\* mutant: failures named NotFoundError or InvalidInputError are rethrown at once
RetryOnReject_NoRetryNotFound(st, e) ==
    LET s1 == [st EXCEPT !.outstanding = @ - 1, !.failed = @ + 1,
                         !.lastError = ToError(e), !.lastRaised = e]
        d  == BackoffDelay(st.baseDelay, st.attempt)
    IN  IF e.name \in {"NotFoundError", "InvalidInputError"}
        THEN [s1 EXCEPT !.pc = "thrown"]
        ELSE IF ShouldBackoff(st.attempt, st.maxRetries)
        THEN [s1 EXCEPT !.pc = "backoff", !.timer = d, !.delays = Append(@, d)]
        ELSE RetryLoop([s1 EXCEPT !.attempt = @ + 1])

\* mutant: the backoff promise is created but not awaited
RetryOnReject_NoAwaitSleep(st, e) ==
    LET s1 == [st EXCEPT !.outstanding = @ - 1, !.failed = @ + 1,
                         !.lastError = ToError(e), !.lastRaised = e]
        d  == BackoffDelay(st.baseDelay, st.attempt)
    IN  IF ShouldBackoff(st.attempt, st.maxRetries)
        THEN RetryLoop([s1 EXCEPT !.timer = d, !.delays = Append(@, d), !.attempt = @ + 1])
        ELSE RetryLoop([s1 EXCEPT !.attempt = @ + 1])

\* api.ts:58-65  the catch block when fn's promise rejects with e, up to the next suspension
RetryOnReject(st, e) ==
    LET s1 == [st EXCEPT !.outstanding = @ - 1, !.failed = @ + 1,
                         !.lastError = ToError(e), !.lastRaised = e]
        d  == BackoffDelay(st.baseDelay, st.attempt)
    IN  IF ShouldBackoff(st.attempt, st.maxRetries)
        THEN [s1 EXCEPT !.pc = "backoff", !.timer = d, !.delays = Append(@, d)]
        ELSE RetryLoop([s1 EXCEPT !.attempt = @ + 1])

\* api.ts:62,55  the setTimeout callback resolves the wait: attempt++ and the loop head
RetryOnTimer(st) ==
    RetryLoop([st EXCEPT !.timer = 0, !.attempt = @ + 1])

\* outcome of one invocation of the fetch function
Fulfilled(v) == [ok |-> TRUE, value |-> v, error |-> Null]
Rejected(e) == [ok |-> FALSE, value |-> NoValue, error |-> e]

RetrySettle(st, outcome) ==
    IF outcome.ok THEN RetryOnResolve(st, outcome.value)
    ELSE RetryOnReject(st, outcome.error)

Settled(st) == st.pc \in {"returned", "thrown"}

\* -------------------------------------------------- transformRawHistory
\* types.ts:67-72  number | null: null is NullNum, every number of a price is >= 0
NullNum == -1

\* a ?? b
Coalesce(a, b) == IF a # NullNum THEN a ELSE b

\* exact rationals [num, den] with den > 0 in lowest terms stand for the JavaScript
\* numbers a division produces (the rounding of IEEE doubles is not modelled)
RECURSIVE Gcd(_, _)
Gcd(a, b) == IF b = 0 THEN a ELSE Gcd(b, a % b)
Abs(x) == IF x < 0 THEN 0 - x ELSE x
Frac(n, d) ==
    LET g == Gcd(Abs(n), Abs(d))
        sgn == IF d < 0 THEN 0 - 1 ELSE 1
    IN  [num |-> sgn * (n \div g), den |-> sgn * (d \div g)]
FracTimes(f, k) == Frac(f.num * k, f.den)

\* Date.prototype.toISOString of a time value in milliseconds: the calendar day since
\* the epoch, the second of that day and the millisecond of that second
ToISOString(ms) ==
    [day |-> ms \div 86400000, sec |-> (ms % 86400000) \div 1000, milli |-> ms % 1000]

\* Date.parse of such a string: the time value in milliseconds
ParseISO(date) == date.day * 86400000 + date.sec * 1000 + date.milli

\* mutant: end_period_ts is taken for milliseconds
ToCandle_TsAsMillis(c) ==
    [date   |-> ToISOString(c.end_period_ts),
     open   |-> Coalesce(c.price.open, Coalesce(c.price.previous, 0)),
     high   |-> Coalesce(c.price.high, Coalesce(c.price.close, 0)),
     low    |-> Coalesce(c.price.low, Coalesce(c.price.close, 0)),
     close  |-> Coalesce(c.price.close, 0),
     volume |-> c.volume]

\* mutant: a missing open, high or low becomes 0 without looking at previous or close
ToCandle_NoFallback(c) ==
    [date   |-> ToISOString(c.end_period_ts * 1000),
     open   |-> Coalesce(c.price.open, 0),
     high   |-> Coalesce(c.price.high, 0),
     low    |-> Coalesce(c.price.low, 0),
     close  |-> Coalesce(c.price.close, 0),
     volume |-> c.volume]

\* api.ts:21-28  the PriceCandle of one raw candlestick
ToCandle(c) ==
    [date   |-> ToISOString(c.end_period_ts * 1000),
     open   |-> Coalesce(c.price.open, Coalesce(c.price.previous, 0)),
     high   |-> Coalesce(c.price.high, Coalesce(c.price.close, 0)),
     low    |-> Coalesce(c.price.low, Coalesce(c.price.close, 0)),
     close  |-> Coalesce(c.price.close, 0),
     volume |-> c.volume]

\* mutant: the filter tests the close for truthiness, so a close of 0 is dropped too
Candles_Falsy(candlesticks) ==
    LET kept == SelectSeq(candlesticks,
                          LAMBDA c : c.price.close # NullNum /\ c.price.close # 0)
    IN  [i \in 1..Len(kept) |-> ToCandle(kept[i])]

\* mutant: the candles are collected newest first
Candles_Reversed(candlesticks) ==
    LET kept == SelectSeq(candlesticks, LAMBDA c : c.price.close # NullNum)
    IN  [i \in 1..Len(kept) |-> ToCandle(kept[Len(kept) + 1 - i])]

\* api.ts:19-28  raw.candlesticks.filter(c => c.price.close !== null).map(...)
Candles(candlesticks) ==
    LET kept == SelectSeq(candlesticks, LAMBDA c : c.price.close # NullNum)
    IN  [i \in 1..Len(kept) |-> ToCandle(kept[i])]

\* mutant: the change is taken between the last two candles
PriceChange30d_LastTwo(candles) ==
    IF Len(candles) >= 2
    THEN candles[Len(candles)].close - candles[Len(candles) - 1].close
    ELSE 0

\* api.ts:31-33  priceChange30d
PriceChange30d(candles) ==
    IF Len(candles) >= 2
    THEN candles[Len(candles)].close - candles[1].close
    ELSE 0

\* api.ts:34-36  priceChangePct
PriceChangePct(candles) ==
    IF Len(candles) >= 2 /\ candles[1].close # 0
    THEN FracTimes(Frac(candles[Len(candles)].close - candles[1].close, candles[1].close),
                   100)
    ELSE Frac(0, 1)

\* api.ts:18-46  transformRawHistory(raw)
PriceHistoryOf(r) ==
    LET candles == Candles(r.candlesticks)
    IN  [ticker |-> r.ticker,
         title |-> "",
         days |-> Len(candles),
         candles |-> candles,
         price_change_30d |-> PriceChange30d(candles),
         price_change_pct |-> PriceChangePct(candles)]

\* ------------------------------------------------------------ getHistory
\* api.ts:73  transformRawHistory(raw) inside getHistory; origin names the call that
\* fetched the response
TransformRawHistory(r, origin) ==
    LET h == PriceHistoryOf(r)
    IN  [ticker |-> h.ticker, title |-> h.title, days |-> h.days, candles |-> h.candles,
         price_change_30d |-> h.price_change_30d, price_change_pct |-> h.price_change_pct,
         origin |-> origin]

\* what the backend can answer to GET /history/{ticker}/raw
HistoryResponses(ticker) ==
    {[kind |-> "ok", status |-> "200", body |-> [ticker |-> ticker, candlesticks |-> <<>>]]}
    \cup {[kind |-> "http", status |-> s, body |-> [ticker |-> "", candlesticks |-> <<>>]] :
             s \in {"404", "500"}}
    \cup {[kind |-> k, status |-> "", body |-> [ticker |-> "", candlesticks |-> <<>>]] :
             k \in {"network", "malformed"}}

AllHistoryResponses == UNION {HistoryResponses(t) : t \in Tickers}

\* mutant: the non-2xx message does not interpolate the ticker
GetHistory_NoTicker(ticker, res, origin) ==
    CASE res.kind = "network" ->
            Rejected([isError |-> TRUE, name |-> "TypeError",
                      message |-> <<"Failed to fetch">>, origin |-> origin])
      [] res.kind = "http" ->
            Rejected([isError |-> TRUE, name |-> "Error",
                      message |-> <<"Failed to fetch history">>, origin |-> origin])
      [] res.kind = "malformed" ->
            Rejected([isError |-> TRUE, name |-> "SyntaxError",
                      message |-> <<"Unexpected token in JSON">>, origin |-> origin])
      [] OTHER -> Fulfilled(TransformRawHistory(res.body, origin))

\* api.ts:69-74  getHistory(ticker) on response res
GetHistory(ticker, res, origin) ==
    CASE res.kind = "network" ->
            Rejected([isError |-> TRUE, name |-> "TypeError",
                      message |-> <<"Failed to fetch">>, origin |-> origin])
      [] res.kind = "http" ->
            Rejected([isError |-> TRUE, name |-> "Error",
                      message |-> <<"Failed to fetch history for ", ticker,
                                    " (status: ", res.status, ")">>,
                      origin |-> origin])
      [] res.kind = "malformed" ->
            Rejected([isError |-> TRUE, name |-> "SyntaxError",
                      message |-> <<"Unexpected token in JSON">>, origin |-> origin])
      [] OTHER -> Fulfilled(TransformRawHistory(res.body, origin))

\* ------------------------------------------------------------ getMarkets
\* market lists the backend can answer GET /markets with: distinct tickers, any order
RECURSIVE MarketLists(_)
MarketLists(n) ==
    IF n = 0 THEN {<<>>}
    ELSE LET shorter == MarketLists(n - 1)
         IN  shorter \cup
             {Append(s, [ticker |-> t]) : s \in {x \in shorter : Len(x) = n - 1}, t \in Tickers}

DistinctTickers(s) == \A i, j \in 1..Len(s) : i # j => s[i].ticker # s[j].ticker

MarketsResponses ==
    {[kind |-> "ok", body |-> b] : b \in {s \in MarketLists(MaxMarkets) : DistinctTickers(s)}}
    \cup {[kind |-> k, body |-> <<>>] : k \in {"http", "network", "malformed"}}

\* api.ts:5-9  getMarkets(limit) on response res
GetMarkets(res) ==
    CASE res.kind = "network" ->
            [ok |-> FALSE, value |-> <<>>,
             error |-> [isError |-> TRUE, name |-> "TypeError",
                        message |-> <<"Failed to fetch">>, origin |-> <<>>]]
      [] res.kind = "http" ->
            [ok |-> FALSE, value |-> <<>>,
             error |-> [isError |-> TRUE, name |-> "Error",
                        message |-> <<"Failed to fetch markets">>, origin |-> <<>>]]
      [] res.kind = "malformed" ->
            [ok |-> FALSE, value |-> <<>>,
             error |-> [isError |-> TRUE, name |-> "SyntaxError",
                        message |-> <<"Unexpected token in JSON">>, origin |-> <<>>]]
      [] OTHER -> [ok |-> TRUE, value |-> res.body, error |-> Null]

\* ------------------------------------------------- getMarketsWithHistory
\* mutant: the combinator fulfils as soon as one input promise has fulfilled
AllFulfilled_Any(rs) == \E i \in 1..Len(rs) : rs[i].pc = "returned"

\* api.ts:89  Promise.all fulfils when every input promise has fulfilled
AllFulfilled(rs) == \A i \in 1..Len(rs) : rs[i].pc = "returned"

\* mutant: results are collected in the order the fetches complete
Histories_CompletionOrder(rs, order) == [i \in 1..Len(rs) |-> rs[order[i]].result]

\* api.ts:89  the array Promise.all fulfils with: one slot per input promise, by index
\* (order is the order in which the input promises settled)
Histories(rs, order) == [i \in 1..Len(rs) |-> rs[i].result]

\* api.ts:95  marketsToFetch.map((market, i) => ({ market, history: histories[i] }))
ZipResult(ms, hs) == [i \in 1..Len(ms) |-> [market |-> ms[i], history |-> hs[i]]]

\* mutant: a rejected item is skipped and the histories fetched so far are returned
AwaitAll_PartialResults(pc, res, err, rs, order, ms, i) ==
    LET done == SelectSeq(order, LAMBDA k : rs[k].pc = "returned")
    IN  IF pc # "awaitAll" THEN [pc |-> pc, result |-> res, error |-> err]
        ELSE IF (i \in 1..Len(rs) /\ rs[i].pc = "thrown") \/ AllFulfilled(rs)
             THEN [pc |-> "returned",
                   result |-> [k \in 1..Len(done) |->
                                 [market |-> ms[done[k]], history |-> rs[done[k]].result]],
                   error |-> Null]
        ELSE [pc |-> "awaitAll", result |-> res, error |-> err]

\* mutant: a rejection that arrives after the call has failed replaces its error
AwaitAll_LastRejection(pc, res, err, rs, order, ms, i) ==
    IF pc \in {"awaitAll", "failed"} /\ i \in 1..Len(rs) /\ rs[i].pc = "thrown"
    THEN [pc |-> "failed", result |-> <<>>, error |-> rs[i].lastError]
    ELSE IF pc # "awaitAll" THEN [pc |-> pc, result |-> res, error |-> err]
    ELSE IF AllFulfilled(rs)
         THEN [pc |-> "returned", result |-> ZipResult(ms, Histories(rs, order)), error |-> Null]
    ELSE [pc |-> "awaitAll", result |-> res, error |-> err]

\* api.ts:89-95  the reaction of the awaited Promise.all after input promise i settled
\* (rs: the fetchWithRetry calls after the settlement); also run for an empty array
AwaitAll(pc, res, err, rs, order, ms, i) ==
    IF pc # "awaitAll" THEN [pc |-> pc, result |-> res, error |-> err]
    ELSE IF i \in 1..Len(rs) /\ rs[i].pc = "thrown"
         THEN [pc |-> "failed", result |-> <<>>, error |-> rs[i].lastError]
    ELSE IF AllFulfilled(rs)
         THEN [pc |-> "returned", result |-> ZipResult(ms, Histories(rs, order)), error |-> Null]
    ELSE [pc |-> "awaitAll", result |-> res, error |-> err]

\* mutant: the fetches are started one after the other, each awaited before the next
StartFetches_Sequential(ms) ==
    [i \in 1..Len(ms) |->
        IF i = 1
        THEN RetryLoop(NewRetry("getHistory", ms[i].ticker,
                                DashboardMaxRetries, DashboardBaseDelay))
        ELSE NewRetry("getHistory", ms[i].ticker, DashboardMaxRetries, DashboardBaseDelay)]

\* api.ts:90-92  marketsToFetch.map((m) => fetchWithRetry(() => getHistory(m.ticker), 3, 1000)):
\* every call runs synchronously to its first await, so all first requests are issued
StartFetches(ms) ==
    [i \in 1..Len(ms) |->
        RetryLoop(NewRetry("getHistory", ms[i].ticker,
                           DashboardMaxRetries, DashboardBaseDelay))]

\* the pages at their first render
\* useState<string | null>(null): null
NoError == <<>>

\* page.tsx:17-19  the state of the page at its first render
DashInit ==
    [mounted |-> FALSE, loading |-> TRUE, error |-> NoError, markets |-> <<>>,
     calls |-> <<>>]   \* the getMarketsWithHistory calls of fetchData, in start order

\* lookup/[ticker]/page.tsx:17-19  useState(null) of market, history, estimate
NullData == [kind |-> "null", ticker |-> ""]

\* lookup/[ticker]/page.tsx:15-21  the state of TickerDetailPage at its first render
DetailInit ==
    [mounted |-> FALSE, ticker |-> "", market |-> NullData, history |-> NullData,
     estimate |-> NullData, loading |-> TRUE, error |-> NoError,
     runs |-> <<>>]    \* the fetchData runs of the page, in start order

\* SplashScreen not rendered
NoSplash == [phase |-> "none", timers |-> {}]

\* part_006:235-236, Badge.tsx:51  AppShell and its SplashScreen at their first render
ShellInit ==
    [mounted |-> FALSE, showSplash |-> TRUE, contentReady |-> FALSE,
     splash |-> [phase |-> "enter", timers |-> {}]]

\* no computeMetrics call has been made
MetricsInit == [pc |-> "idle", quote |-> [bid |-> 0, ask |-> 0], p |-> 0, result |-> <<>>]

\* the exchange client at process start: the clock in milliseconds (counted from the
\* start of the run), the outbound calls made so far and the operations started
ExchangeInit == [now |-> 0, calls |-> <<>>, ops |-> 0]

\* --------------------------------------------------------------- actions
Init ==
    /\ callPc = "idle"
    /\ limit = 0
    /\ marketsCalls = 0
    /\ fetched = <<>>
    /\ markets = <<>>
    /\ retry = <<>>
    /\ settleOrder = <<>>
    /\ callResult = <<>>
    /\ callError = Null
    /\ normPc = "idle"
    /\ givenRaw = [ticker |-> "", candlesticks |-> <<>>]
    /\ normalized = PriceHistoryOf(givenRaw)
    /\ renormalized = normalized
    /\ dash = DashInit
    /\ detail = DetailInit
    /\ shell = ShellInit
    /\ splashShown = FALSE
    /\ metrics = MetricsInit
    /\ exchange = ExchangeInit

\* api.ts:84-85  getMarketsWithHistory(l) is called and suspends on getMarkets(l)
CallGetMarketsWithHistory(l) ==
    /\ callPc = "idle"
    /\ normPc = "idle"
    /\ retry = <<>>
    /\ callPc' = "awaitMarkets"
    /\ limit' = l
    /\ marketsCalls' = marketsCalls + 1
    /\ UNCHANGED <<fetched, markets, retry, settleOrder, callResult, callError>>
    /\ UNCHANGED <<normVars, uiVars, backendVars>>

\* mutant: a failed /markets request is issued once more before the call gives up
MarketsResponse_RetryList(res) ==
    /\ callPc = "awaitMarkets"
    /\ LET got == GetMarkets(res)
           ms  == Slice0(got.value, limit)
           rs  == StartFetches(ms)
           nxt == AwaitAll("awaitAll", <<>>, Null, rs, <<>>, ms, 0)
       IN  IF got.ok
           THEN /\ fetched' = got.value
                /\ markets' = ms
                /\ retry' = rs
                /\ callPc' = nxt.pc
                /\ callResult' = nxt.result
                /\ callError' = nxt.error
                /\ UNCHANGED marketsCalls
           ELSE IF marketsCalls < 2
           THEN /\ marketsCalls' = marketsCalls + 1
                /\ UNCHANGED <<callPc, callError, fetched, markets, retry, callResult>>
           ELSE /\ callPc' = "failed"
                /\ callError' = got.error
                /\ UNCHANGED <<marketsCalls, fetched, markets, retry, callResult>>
    /\ UNCHANGED <<limit, settleOrder>>
    /\ UNCHANGED <<normVars, uiVars, backendVars>>

\* api.ts:85-93  the /markets response arrives: slice, start one fetchWithRetry per
\* market (each runs synchronously to its first await), await Promise.all
MarketsResponse(res) ==
    /\ callPc = "awaitMarkets"
    /\ LET got == GetMarkets(res)
           ms  == Slice0(got.value, limit)
           rs  == StartFetches(ms)
           nxt == AwaitAll("awaitAll", <<>>, Null, rs, <<>>, ms, 0)
       IN  IF got.ok
           THEN /\ fetched' = got.value
                /\ markets' = ms
                /\ retry' = rs
                /\ callPc' = nxt.pc
                /\ callResult' = nxt.result
                /\ callError' = nxt.error
           ELSE /\ callPc' = "failed"
                /\ callError' = got.error
                /\ UNCHANGED <<fetched, markets, retry, callResult>>
    /\ UNCHANGED <<limit, marketsCalls, settleOrder>>
    /\ UNCHANGED <<normVars, uiVars, backendVars>>

\* the promise of fetchWithRetry call i took a step: record a settlement and run
\* the Promise.all reaction of getMarketsWithHistory
Advance(i, st) ==
    LET rs    == [retry EXCEPT ![i] = st]
        order == IF Settled(st) /\ ~Settled(retry[i]) THEN Append(settleOrder, i)
                 ELSE settleOrder
        nxt   == IF Settled(st) /\ ~Settled(retry[i])
                 THEN AwaitAll(callPc, callResult, callError, rs, order, markets, i)
                 ELSE [pc |-> callPc, result |-> callResult, error |-> callError]
    IN  /\ retry' = rs
        /\ settleOrder' = order
        /\ callPc' = nxt.pc
        /\ callResult' = nxt.result
        /\ callError' = nxt.error
        /\ UNCHANGED <<limit, marketsCalls, fetched, markets>>
        /\ UNCHANGED <<normVars, uiVars, backendVars>>

\* api.ts:70-73,57-65  the response to the outstanding /history request of item i arrives
HistoryResponse(i, res) ==
    /\ i \in DOMAIN retry
    /\ retry[i].fn = "getHistory"
    /\ retry[i].pc = "awaitFn"
    /\ retry[i].outstanding > 0
    /\ res \in HistoryResponses(retry[i].ticker)
    /\ Advance(i, RetrySettle(retry[i], GetHistory(retry[i].ticker, res, <<i, retry[i].calls>>)))

\* api.ts:62  the backoff timer of fetchWithRetry call i fires
TimerFire(i) ==
    /\ i \in DOMAIN retry
    /\ retry[i].pc = "backoff"
    /\ retry[i].timer # 0
    /\ Advance(i, RetryOnTimer(retry[i]))

\* ---------------------------------------- fetchWithRetry called on its own
\* what an arbitrary fetch function can do on its n-th call: fulfil with a value, or
\* reject with an Error of some class or with a thrown primitive
GenericOutcomes(origin) ==
    {Fulfilled([NoValue EXCEPT !.title = "value", !.origin = origin])}
    \cup {Rejected([isError |-> TRUE, name |-> n, message |-> <<"failed">>, origin |-> origin]) :
             n \in {"UpstreamError", "NotFoundError", "InvalidInputError"}}
    \cup {Rejected([isError |-> FALSE, name |-> "string", message |-> <<"boom">>,
                     origin |-> origin])}

\* api.ts:49-57  fetchWithRetry(fn, maxRetries, baseDelay) is called with an arbitrary fn
CallFetchWithRetry(maxRetries, baseDelay) ==
    /\ callPc = "idle"
    /\ normPc = "idle"
    /\ retry = <<>>
    /\ retry' = <<RetryLoop(NewRetry("generic", "", maxRetries, baseDelay))>>
    /\ settleOrder' = IF Settled(retry'[1]) THEN <<1>> ELSE <<>>
    /\ UNCHANGED <<callPc, limit, marketsCalls, fetched, markets, callResult, callError>>
    /\ UNCHANGED <<normVars, uiVars, backendVars>>

\* api.ts:57-65  the outstanding call of the arbitrary fn settles
FnSettle(i, outcome) ==
    /\ i \in DOMAIN retry
    /\ retry[i].fn = "generic"
    /\ retry[i].pc = "awaitFn"
    /\ retry[i].outstanding > 0
    /\ outcome \in GenericOutcomes(<<i, retry[i].calls>>)
    /\ Advance(i, RetrySettle(retry[i], outcome))

AllGenericOutcomes == UNION {GenericOutcomes(<<1, n>>) : n \in 0..(MaxMaxRetries + 2)}

RetryNext ==
    \/ \E m \in RetryCounts : \E d \in BaseDelays : CallFetchWithRetry(m, d)
    \/ \E o \in AllGenericOutcomes : FnSettle(1, o)
    \/ TimerFire(1)

RetrySpec == Init /\ [][RetryNext]_vars

\* the event loop runs every due timer callback, and the fetch function's promise settles
RetryFairSpec == RetrySpec /\ WF_vars(RetryNext)

\* ------------------------------------- transformRawHistory called on its own
\* the period of the daily candles, in seconds
Period == 86400

\* the price objects a raw candlestick can carry: no trade (everything null), or a
\* close with the other fields present or missing
RawPrices ==
    {[open |-> NullNum, high |-> NullNum, low |-> NullNum, close |-> NullNum,
      previous |-> NullNum]}
    \cup {[open |-> o.open, high |-> o.high, low |-> o.low, close |-> c,
            previous |-> o.previous] :
             c \in {0, 30, 36},
             o \in {[open |-> 28, high |-> 40, low |-> 20, previous |-> 25],
                    [open |-> NullNum, high |-> NullNum, low |-> NullNum, previous |-> 25],
                    [open |-> NullNum, high |-> NullNum, low |-> NullNum,
                     previous |-> NullNum],
                    [open |-> 28, high |-> NullNum, low |-> 20, previous |-> NullNum],
                    [open |-> 28, high |-> 40, low |-> NullNum, previous |-> NullNum]}}

\* the end_period_ts of record i of n: ascending, descending or all the same
PeriodEnd(order, i, n) ==
    CASE order = "ascending" -> Period * i
      [] order = "descending" -> Period * (n + 1 - i)
      [] OTHER -> Period

\* the orders in which the backend can list n periods
PeriodOrders(n) == IF n >= 2 THEN {"ascending", "descending", "same"} ELSE {"ascending"}

\* the raw history response with the given price objects, listed in the given order
RawResponse(prices, order) ==
    [ticker |-> "A",
     candlesticks |-> [i \in 1..Len(prices) |->
         [end_period_ts |-> PeriodEnd(order, i, Len(prices)), volume |-> 7 * i,
          price |-> prices[i]]]]

\* a PriceCandle given back as a raw candlestick with every field present
AsRawCandlestick(c) ==
    [end_period_ts |-> ParseISO(c.date) \div 1000, volume |-> c.volume,
     price |-> [open |-> c.open, high |-> c.high, low |-> c.low, close |-> c.close,
                previous |-> c.open]]

AsRaw(h) ==
    [ticker |-> h.ticker,
     candlesticks |-> [i \in 1..Len(h.candles) |-> AsRawCandlestick(h.candles[i])]]

\* api.ts:18-46  transformRawHistory(r) is called
Normalize(r) ==
    /\ normPc = "idle"
    /\ callPc = "idle"
    /\ retry = <<>>
    /\ Len(r.candlesticks) <= MaxRecords
    /\ normPc' = "normalized"
    /\ givenRaw' = r
    /\ normalized' = PriceHistoryOf(r)
    /\ renormalized' = renormalized
    /\ UNCHANGED <<apiVars, uiVars, backendVars>>

\* api.ts:18-46  transformRawHistory is called on the candles it produced
Renormalize ==
    /\ normPc = "normalized"
    /\ normPc' = "renormalized"
    /\ renormalized' = PriceHistoryOf(AsRaw(normalized))
    /\ UNCHANGED <<givenRaw, normalized>>
    /\ UNCHANGED <<apiVars, uiVars, backendVars>>

\* transformRawHistory is called on one of the raw responses tried
NormalizeSome ==
    /\ normPc = "idle"
    /\ \E n \in 0..MaxRecords : \E prices \in [1..n -> RawPrices] :
          \E order \in PeriodOrders(n) : Normalize(RawResponse(prices, order))

NormNext ==
    \/ NormalizeSome
    \/ Renormalize

NormSpec == Init /\ [][NormNext]_vars

Next ==
    \/ \E l \in Limits : CallGetMarketsWithHistory(l)
    \/ \E res \in MarketsResponses : MarketsResponse(res)
    \/ \E i \in 1..MaxMarkets : \E res \in AllHistoryResponses : HistoryResponse(i, res)
    \/ \E i \in 1..MaxMarkets : TimerFire(i)

Spec == Init /\ [][Next]_vars

\* ------------------------------------------------------- DashboardPage
\* api.ts:84-85  the frame of a getMarketsWithHistory(l) call suspended on getMarkets(l)
NewCall(l) ==
    [pc |-> "awaitMarkets", limit |-> l, markets |-> <<>>, retry |-> <<>>,
     settleOrder |-> <<>>, result |-> <<>>, error |-> Null]

\* the call has neither returned nor failed
InFlight(c) == c.pc \in {"awaitMarkets", "awaitAll"}

\* api.ts:85-93  call c receives the /markets response
CallOnMarkets(c, res) ==
    LET got == GetMarkets(res)
        ms  == Slice0(got.value, c.limit)
        rs  == StartFetches(ms)
        nxt == AwaitAll("awaitAll", <<>>, Null, rs, <<>>, ms, 0)
    IN  IF got.ok
        THEN [c EXCEPT !.markets = ms, !.retry = rs, !.pc = nxt.pc,
                       !.result = nxt.result, !.error = nxt.error]
        ELSE [c EXCEPT !.pc = "failed", !.error = got.error]

\* api.ts:89-95  fetchWithRetry call i of call c took a step to st
CallAdvance(c, i, st) ==
    LET rs    == [c.retry EXCEPT ![i] = st]
        newly == Settled(st) /\ ~Settled(c.retry[i])
        order == IF newly THEN Append(c.settleOrder, i) ELSE c.settleOrder
        nxt   == IF newly
                 THEN AwaitAll(c.pc, c.result, c.error, rs, order, c.markets, i)
                 ELSE [pc |-> c.pc, result |-> c.result, error |-> c.error]
    IN  [c EXCEPT !.retry = rs, !.settleOrder = order, !.pc = nxt.pc,
                  !.result = nxt.result, !.error = nxt.error]

\* page.tsx:30  e instanceof Error ? e.message : 'Failed to load data'
DashErrorMessage(e) == IF e.isError THEN e.message ELSE <<"Failed to load data">>

\* mutant: a failed load clears the list
FetchDataResume_ClearsOnFailure(d, before, after) ==
    IF ~InFlight(before) \/ InFlight(after) THEN d
    ELSE IF after.pc = "returned"
    THEN [d EXCEPT !.markets = after.result, !.loading = FALSE]
    ELSE [d EXCEPT !.error = DashErrorMessage(after.error), !.markets = <<>>,
                   !.loading = FALSE]

\* page.tsx:27-33  fetchData resumes when its call settles (before -> after)
FetchDataResume(d, before, after) ==
    IF ~InFlight(before) \/ InFlight(after) THEN d
    ELSE IF after.pc = "returned"
    THEN [d EXCEPT !.markets = after.result, !.loading = FALSE]
    ELSE [d EXCEPT !.error = DashErrorMessage(after.error), !.loading = FALSE]

\* page.tsx:23-27  fetchData up to its await
FetchDataStart(d) ==
    [d EXCEPT !.loading = TRUE, !.error = NoError,
              !.calls = Append(@, NewCall(DashboardLimit))]

\* mutant: the Refresh button is never disabled
RefreshEnabled_Always(d) == TRUE

\* page.tsx:52-58  disabled={loading}
RefreshEnabled(d) == ~d.loading

\* page.tsx:63-67  {error && <ErrorBanner ... onRetry={fetchData} />}
BannerShown(d) == d.error # NoError

\* call k of the page moved to c: store it and resume the fetchData that awaits it
DashStep(k, c) ==
    dash' = [FetchDataResume(dash, dash.calls[k], c) EXCEPT !.calls[k] = c]

\* page.tsx:36-38  the mount effect calls fetchData
DashMount ==
    /\ ~dash.mounted
    /\ dash' = FetchDataStart([dash EXCEPT !.mounted = TRUE])
    /\ UNCHANGED <<backendVars, apiVars, normVars, detail, shell, splashShown>>

\* page.tsx:53  a click on the Refresh button
DashRefresh ==
    /\ dash.mounted
    /\ RefreshEnabled(dash)
    /\ Len(dash.calls) < MaxRuns
    /\ dash' = FetchDataStart(dash)
    /\ UNCHANGED <<backendVars, apiVars, normVars, detail, shell, splashShown>>

\* page.tsx:65  a click on the retry of the error banner
DashRetry ==
    /\ dash.mounted
    /\ BannerShown(dash)
    /\ Len(dash.calls) < MaxRuns
    /\ dash' = FetchDataStart(dash)
    /\ UNCHANGED <<backendVars, apiVars, normVars, detail, shell, splashShown>>

\* api.ts:85-93, page.tsx:27-33  the /markets response of call k arrives
DashMarketsResponse(k, res) ==
    /\ k \in DOMAIN dash.calls
    /\ dash.calls[k].pc = "awaitMarkets"
    /\ DashStep(k, CallOnMarkets(dash.calls[k], res))
    /\ UNCHANGED <<backendVars, apiVars, normVars, detail, shell, splashShown>>

\* api.ts:70-73,57-65, page.tsx:27-33  a /history response of item i of call k arrives
DashHistoryResponse(k, i, res) ==
    /\ k \in DOMAIN dash.calls
    /\ i \in DOMAIN dash.calls[k].retry
    /\ LET c  == dash.calls[k]
           st == c.retry[i]
       IN  /\ st.pc = "awaitFn"
           /\ st.outstanding > 0
           /\ res \in HistoryResponses(st.ticker)
           /\ DashStep(k, CallAdvance(c, i,
                  RetrySettle(st, GetHistory(st.ticker, res, <<i, st.calls>>))))
    /\ UNCHANGED <<backendVars, apiVars, normVars, detail, shell, splashShown>>

\* api.ts:62, page.tsx:27-33  the backoff timer of item i of call k fires
DashTimerFire(k, i) ==
    /\ k \in DOMAIN dash.calls
    /\ i \in DOMAIN dash.calls[k].retry
    /\ LET c  == dash.calls[k]
           st == c.retry[i]
       IN  /\ st.pc = "backoff"
           /\ st.timer # 0
           /\ DashStep(k, CallAdvance(c, i, RetryOnTimer(st)))
    /\ UNCHANGED <<backendVars, apiVars, normVars, detail, shell, splashShown>>

\* the answers to GET /markets tried on the page: a failure, or the first n markets of
\* the upstream's list
UpstreamMarkets == <<"A", "B">>
DashMarketsResponses ==
    {[kind |-> "ok", body |-> [i \in 1..n |-> [ticker |-> UpstreamMarkets[i]]]] :
        n \in 0..(IF MaxMarkets < Len(UpstreamMarkets) THEN MaxMarkets
                  ELSE Len(UpstreamMarkets))}
    \cup {[kind |-> "http", body |-> <<>>]}

\* the answers to GET /history/{ticker}/raw tried on the page: 200 or 500
DashHistoryResponses ==
    {r \in AllHistoryResponses : r.kind = "ok" \/ r.status = "500"}

DashNext ==
    \/ DashMount
    \/ DashRefresh
    \/ DashRetry
    \/ \E k \in 1..MaxRuns : \E res \in DashMarketsResponses : DashMarketsResponse(k, res)
    \/ \E k \in 1..MaxRuns : \E i \in 1..MaxMarkets : \E res \in DashHistoryResponses :
          DashHistoryResponse(k, i, res)
    \/ \E k \in 1..MaxRuns : \E i \in 1..MaxMarkets : DashTimerFire(k, i)

DashSpec == Init /\ [][DashNext]_vars

\* ------------------------------------------------------- TickerDetailPage
DetailTickers == {"A", "B"}

\* what getMarket, getHistory and getEstimate give for ticker t
DataOf(kind, t) == [kind |-> kind, ticker |-> t]

\* lookup/[ticker]/page.tsx:29-33  the three fetches of one fetchData run, all pending
NewRun(t) ==
    [ticker |-> t, market |-> "pending", history |-> "pending", estimate |-> "pending"]

\* Promise.allSettled has not fulfilled yet
RunPending(r) == "pending" \in {r.market, r.history, r.estimate}

\* lookup/[ticker]/page.tsx:35-57  fetchData of run r after Promise.allSettled
FetchDataSettled(d, r) ==
    IF r.market = "rejected"
    THEN [d EXCEPT !.error = <<"Market not found: ", r.ticker>>, !.loading = FALSE]
    ELSE IF r.history = "rejected"
    THEN [d EXCEPT !.market = DataOf("market", r.ticker),
                   !.error = <<"Failed to load price history">>, !.loading = FALSE]
    ELSE [d EXCEPT !.market = DataOf("market", r.ticker),
                   !.history = DataOf("history", r.ticker),
                   !.estimate = IF r.estimate = "fulfilled"
                                THEN DataOf("estimate", r.ticker) ELSE NullData,
                   !.loading = FALSE]

\* lookup/[ticker]/page.tsx:23-33  fetchData of the render with ticker d.ticker, up to its await
DetailFetchStart(d) ==
    [d EXCEPT !.loading = TRUE, !.error = NoError, !.runs = Append(@, NewRun(d.ticker))]

\* lookup/[ticker]/page.tsx:118  the detail card is rendered
CardShown(d) ==
    ~d.loading /\ d.error = NoError /\ d.market # NullData /\ d.history # NullData

\* lookup/[ticker]/page.tsx:60-64  first render with ticker t, then the effect
DetailMount(t) ==
    /\ ~detail.mounted
    /\ detail' = DetailFetchStart([detail EXCEPT !.mounted = TRUE, !.ticker = t])
    /\ UNCHANGED <<backendVars, apiVars, normVars, dash, shell, splashShown>>

\* lookup/[ticker]/page.tsx:15,60-64  params.ticker changes to t: the effect runs again
DetailNavigate(t) ==
    /\ detail.mounted
    /\ t # detail.ticker
    /\ Len(detail.runs) < MaxRuns
    /\ detail' = DetailFetchStart([detail EXCEPT !.ticker = t])
    /\ UNCHANGED <<backendVars, apiVars, normVars, dash, shell, splashShown>>

\* lookup/[ticker]/page.tsx:103-105  a click on the retry of the error banner
DetailRetry ==
    /\ detail.mounted
    /\ BannerShown(detail)
    /\ Len(detail.runs) < MaxRuns
    /\ detail' = DetailFetchStart(detail)
    /\ UNCHANGED <<backendVars, apiVars, normVars, dash, shell, splashShown>>

\* lookup/[ticker]/page.tsx:29-57  one fetch of run k settles; when it is the last of
\* the three, Promise.allSettled fulfils and fetchData runs to its end
DetailFetchSettles(k, which, outcome) ==
    /\ k \in DOMAIN detail.runs
    /\ detail.runs[k][which] = "pending"
    /\ LET r == [detail.runs[k] EXCEPT ![which] = outcome]
           d == [detail EXCEPT !.runs[k] = r]
       IN  detail' = IF RunPending(r) THEN d ELSE FetchDataSettled(d, r)
    /\ UNCHANGED <<backendVars, apiVars, normVars, dash, shell, splashShown>>

\* ------------------------------------------------ AppShell and SplashScreen
\* mutant: the content is revealed only on the next mount
HandleSplashComplete_NoContent(s) ==
    [s EXCEPT !.showSplash = FALSE, !.splash = NoSplash]

\* part_006:248-252  handleSplashComplete, then SplashScreen unmounts (Badge.tsx:70-74)
HandleSplashComplete(s) ==
    [s EXCEPT !.showSplash = FALSE, !.contentReady = TRUE, !.splash = NoSplash]

\* Badge.tsx:53-68, part_006:238-246  the effects of the first render: SplashScreen
\* sets its three timers, then AppShell looks for splashShown in the session storage
ShellMount ==
    /\ ~shell.mounted
    /\ shell' = IF splashShown
                THEN [shell EXCEPT !.mounted = TRUE, !.showSplash = FALSE,
                                   !.contentReady = TRUE, !.splash = NoSplash]
                ELSE [shell EXCEPT !.mounted = TRUE,
                                   !.splash.timers = {"enter", "visible", "complete"}]
    /\ UNCHANGED <<backendVars, apiVars, normVars, dash, detail, splashShown>>

\* Badge.tsx:55-57  the 100 ms timer
EnterTimer ==
    /\ "enter" \in shell.splash.timers
    /\ shell' = [shell EXCEPT !.splash.phase = "visible", !.splash.timers = @ \ {"enter"}]
    /\ UNCHANGED <<backendVars, apiVars, normVars, dash, detail, splashShown>>

\* Badge.tsx:60-62  the 2600 ms timer
VisibleTimer ==
    /\ "visible" \in shell.splash.timers
    /\ "enter" \notin shell.splash.timers
    /\ shell' = [shell EXCEPT !.splash.phase = "fade-out",
                              !.splash.timers = @ \ {"visible"}]
    /\ UNCHANGED <<backendVars, apiVars, normVars, dash, detail, splashShown>>

\* Badge.tsx:65-68, part_006:248-252  the 3400 ms timer: phase done and onComplete
CompleteTimer ==
    /\ "complete" \in shell.splash.timers
    /\ "visible" \notin shell.splash.timers
    /\ "enter" \notin shell.splash.timers
    /\ splashShown' = TRUE
    /\ shell' = HandleSplashComplete(shell)
    /\ UNCHANGED <<backendVars, apiVars, normVars, dash, detail>>

\* the document is loaded again: every component starts over, the session storage stays
Reload ==
    /\ shell.mounted
    /\ detail.mounted
    /\ shell' = ShellInit
    /\ detail' = DetailInit
    /\ UNCHANGED <<backendVars, apiVars, normVars, dash, splashShown>>

AppNext ==
    \/ ShellMount
    \/ EnterTimer
    \/ VisibleTimer
    \/ CompleteTimer
    \/ Reload
    \/ \E t \in DetailTickers : DetailMount(t)
    \/ \E t \in DetailTickers : DetailNavigate(t)
    \/ DetailRetry
    \/ \E k \in 1..MaxRuns : \E which \in {"market", "history", "estimate"} :
          \E outcome \in {"fulfilled", "rejected"} : DetailFetchSettles(k, which, outcome)

AppSpec == Init /\ [][AppNext]_vars

\* --------------------------------------------------- DecisionMetricsEngine
\* trueProbability is counted in units of 1/ProbScale, so -0.0001 is -1 and 1.0001 is
\* ProbScale + 1; prices are integer cents
ProbScale == 10000
MaxPrice == 100

\* the prices and probabilities computeMetrics is applied to
Prices ==
    {0, 1, MaxPrice - 1, MaxPrice} \cup {k * PriceStep : k \in 0..(MaxPrice \div PriceStep)}
Probabilities ==
    {0 - 1, ProbScale, ProbScale + 1}
        \cup {k * ProbStep : k \in 0..(ProbScale \div ProbStep)}

InvalidInputError == [error |-> "InvalidInputError"]

\* marketImpliedProbability = (bid + ask) / 2 / 100
MarketImplied(q) == Frac(q.bid + q.ask, 2 * MaxPrice)

\* trueProbability >= marketImpliedProbability: the user favors YES
FavorsYes(q, p) == p * 2 * MaxPrice >= (q.bid + q.ask) * ProbScale

\* alpha = (trueProbability - marketImpliedProbability) * 100
Alpha(q, p) == Frac((p * 2 * MaxPrice - (q.bid + q.ask) * ProbScale) * 100, ProbScale * 2 * MaxPrice)

\* winning with probability w / ProbScale on a contract bought at price:
\* w * (100 - price) - (1 - w) * price
SideValue(price, w) == Frac(w * (MaxPrice - price) - (ProbScale - w) * price, ProbScale)

\* buying YES at the ask, or NO at 100 - bid
ExpectedValue(q, p) ==
    IF FavorsYes(q, p) THEN SideValue(q.ask, p)
    ELSE SideValue(MaxPrice - q.bid, ProbScale - p)

\* mutant: the raw Kelly value is reported as it is
Clamp01_Raw(f) == f

\* the result is clamped to [0, 1]
Clamp01(f) ==
    IF f.num < 0 THEN Frac(0, 1) ELSE IF f.num > f.den THEN Frac(1, 1) ELSE f

\* f* = (p * (b + 1) - 1) / b with b = (100 - price) / price the net odds of the side
\* and p = w / ProbScale, which is (w * 100 - ProbScale * price) / (ProbScale * (100 - price));
\* at price 0 that is p itself
RawKelly(price, w) == Frac(w * MaxPrice - ProbScale * price, ProbScale * (MaxPrice - price))

\* the Kelly fraction of one side; a side that costs the whole payout has no odds
\* (b = 0), hence no edge, and reports 0
SideKelly(price, w) ==
    IF price = MaxPrice THEN Frac(0, 1) ELSE Clamp01(RawKelly(price, w))

\* the odds of the favored side; the NO side is treated as the YES side is
KellyFraction(q, p) ==
    IF FavorsYes(q, p) THEN SideKelly(q.ask, p)
    ELSE SideKelly(MaxPrice - q.bid, ProbScale - p)

\* mutant: a probability outside [0, 1] is clamped into the range
ComputeMetrics_Clamped(q, p) ==
    LET c == IF p < 0 THEN 0 ELSE IF p > ProbScale THEN ProbScale ELSE p
    IN  [spreadCost |-> q.ask - q.bid,
         trueProbability |-> c,
         alpha |-> Alpha(q, c),
         expectedValue |-> ExpectedValue(q, c),
         kellyFraction |-> KellyFraction(q, c)]

\* computeMetrics(quote, trueProbability)
ComputeMetrics(q, p) ==
    IF p < 0 \/ p > ProbScale THEN InvalidInputError
    ELSE [spreadCost |-> q.ask - q.bid,
          trueProbability |-> p,
          alpha |-> Alpha(q, p),
          expectedValue |-> ExpectedValue(q, p),
          kellyFraction |-> KellyFraction(q, p)]

\* one call of computeMetrics on a valid quote
CallComputeMetrics(q, p) ==
    /\ metrics' = [pc |-> "done", quote |-> q, p |-> p, result |-> ComputeMetrics(q, p)]
    /\ UNCHANGED <<apiVars, normVars, uiVars, exchange>>

ComputeMetricsSome ==
    /\ metrics.pc = "idle"
    /\ \E bid \in Prices : \E ask \in {a \in Prices : a >= bid} : \E p \in Probabilities :
          CallComputeMetrics([bid |-> bid, ask |-> ask], p)

MetricsNext == ComputeMetricsSome

MetricsSpec == Init /\ [][MetricsNext]_vars

\* ------------------------------------------- RequestSigner, MarketDataClient
ExchangeTickers == {"A", "B"}

\* the signature of timestamp || method || path under the process's private key; the
\* digest and the deterministic padding make it a function of the three, and
\* different messages have different signatures
Sign(timestamp, method, path) == <<"signed", timestamp, method, path>>

\* a SignedRequest made at time now
SignedRequest(now, method, path) ==
    [method |-> method, path |-> path, timestamp |-> now,
     signature |-> Sign(now, method, path)]

\* an outbound call of operation op: its SignedRequest and, for the record, the time
\* at which the call is made
CallOf(x, op, attempt, request) ==
    [op |-> op, attempt |-> attempt, at |-> x.now, request |-> request]

\* one signed GET of a new operation
Get(x, path) ==
    [x EXCEPT !.ops = @ + 1,
              !.calls = Append(@, CallOf(x, x.ops + 1, 1, SignedRequest(x.now, "GET", path)))]

\* the millisecond clock advances
Tick ==
    /\ exchange.now < MaxClock
    /\ exchange' = [exchange EXCEPT !.now = @ + 1]
    /\ UNCHANGED <<apiVars, normVars, uiVars, metrics>>

\* listMarkets: one signed GET
ListMarkets ==
    /\ Len(exchange.calls) < MaxCalls
    /\ exchange' = Get(exchange, <<"markets">>)
    /\ UNCHANGED <<apiVars, normVars, uiVars, metrics>>

\* getHistory(t): one signed GET against the candlestick endpoint
GetCandlesticks(t) ==
    /\ Len(exchange.calls) < MaxCalls
    /\ exchange' = Get(exchange, <<"markets", t, "candlesticks">>)
    /\ UNCHANGED <<apiVars, normVars, uiVars, metrics>>

\* getQuote(t): one signed GET for the summary and one for the order book
GetQuote(t) ==
    /\ Len(exchange.calls) + 1 < MaxCalls
    /\ LET x == exchange
           op == x.ops + 1
       IN  exchange' =
             [x EXCEPT !.ops = op,
                       !.calls = @ \o
                          <<CallOf(x, op, 1, SignedRequest(x.now, "GET", <<"markets", t>>)),
                            CallOf(x, op, 1,
                                   SignedRequest(x.now, "GET", <<"markets", t, "orderbook">>))>>]
    /\ UNCHANGED <<apiVars, normVars, uiVars, metrics>>

\* fetchAllOrFail over the tickers: the histories are fetched in parallel
FetchAllOrFail ==
    /\ Len(exchange.calls) + 1 < MaxCalls
    /\ LET x == exchange
           op == x.ops + 1
       IN  exchange' =
             [x EXCEPT !.ops = op,
                       !.calls = @ \o
                          <<CallOf(x, op, 1,
                                   SignedRequest(x.now, "GET", <<"markets", "A", "candlesticks">>)),
                            CallOf(x, op, 1,
                                   SignedRequest(x.now, "GET", <<"markets", "B", "candlesticks">>))>>]
    /\ UNCHANGED <<apiVars, normVars, uiVars, metrics>>

\* call k is the latest attempt of its operation for its resource
LatestAttempt(x, k) ==
    \A j \in DOMAIN x.calls :
        (x.calls[j].op = x.calls[k].op /\ x.calls[j].request.path = x.calls[k].request.path)
            => x.calls[j].attempt <= x.calls[k].attempt

\* mutant: the retry sends the request of the failed attempt again
AttemptRequest_Reused(x, k) == x.calls[k].request

\* the SignedRequest of the attempt that follows the failed call k
AttemptRequest(x, k) == SignedRequest(x.now, "GET", x.calls[k].request.path)

\* retry: call k failed and, after the backoff, the next attempt for its resource is made
RetryAttempt(k) ==
    /\ k \in DOMAIN exchange.calls
    /\ Len(exchange.calls) < MaxCalls
    /\ LatestAttempt(exchange, k)
    /\ exchange.calls[k].attempt < MaxAttempts
    /\ exchange.now > exchange.calls[k].at
    /\ exchange' = [exchange EXCEPT !.calls =
          Append(@, CallOf(exchange, exchange.calls[k].op, exchange.calls[k].attempt + 1,
                           AttemptRequest(exchange, k)))]
    /\ UNCHANGED <<apiVars, normVars, uiVars, metrics>>

ExchangeNext ==
    \/ Tick
    \/ ListMarkets
    \/ \E t \in ExchangeTickers : GetCandlesticks(t)
    \/ \E t \in ExchangeTickers : GetQuote(t)
    \/ FetchAllOrFail
    \/ \E k \in 1..MaxCalls : RetryAttempt(k)

ExchangeSpec == Init /\ [][ExchangeNext]_vars

\* ================================================================ claims
\* the fetchWithRetry calls running in the current state
Running == DOMAIN retry
Items == 1..MaxMarkets

\* a call with maxRetries >= 1 never invokes fn more than maxRetries times, and has
\* invoked it, and seen it fail, exactly maxRetries times when it throws
C2_NeverMoreThanMax ==
    \A r \in Running :
        retry[r].maxRetries >= 1 =>
            /\ retry[r].calls <= retry[r].maxRetries
            /\ retry[r].pc = "thrown" =>
                  /\ retry[r].calls = retry[r].maxRetries
                  /\ retry[r].failed = retry[r].maxRetries
                  /\ retry[r].outstanding = 0
                  /\ retry[r].timer = 0
\* a call that has thrown does nothing further
C2_NoCallAfterFailure ==
    \A r \in Items :
        (r \in Running /\ retry[r].pc = "thrown") =>
            (r \in DOMAIN retry' /\ retry'[r] = retry[r])
\* C2: with maxAttempts >= 1 and a fetch function that fails on every call,
\* fetchWithRetry invokes it exactly maxAttempts times and then fails; it makes no
\* call after that, and it always terminates.
C2_ExhaustsExactlyMaxAttempts ==
    /\ []C2_NeverMoreThanMax
    /\ [][C2_NoCallAfterFailure]_vars
    /\ (retry # <<>>) ~> (retry # <<>> /\ Settled(retry[1]))
C2_Witness ==
    /\ retry # <<>>
    /\ retry[1].maxRetries = 4
    /\ retry[1].pc = "thrown"
    /\ retry[1].failed = 4

\* C3: when the fetch function fails on its first k-1 calls and succeeds on its k-th
\* (1 <= k <= maxAttempts), fetchWithRetry returns the value of that k-th call and has
\* invoked the function exactly k times; nothing is called after the success.
C3_ReturnsFirstSuccess ==
    \A r \in Running :
        /\ retry[r].succeeded >= 1 =>
              /\ retry[r].pc = "returned"
              /\ retry[r].succeeded = 1
              /\ retry[r].calls = retry[r].failed + 1
              /\ retry[r].calls <= retry[r].maxRetries
              /\ retry[r].result.origin = <<r, retry[r].calls>>
              /\ retry[r].outstanding = 0
              /\ retry[r].timer = 0
        /\ retry[r].pc = "returned" => retry[r].succeeded = 1
C3_Witness ==
    /\ retry # <<>>
    /\ retry[1].maxRetries = 4
    /\ retry[1].pc = "returned"
    /\ retry[1].failed = 2
    /\ retry[1].calls = 3

\* C4 as stated: when every attempt fails, the caller receives exactly the value the
\* final attempt raised, unchanged, whatever kind of value it is.
C4_Original ==
    \A r \in Running :
        (retry[r].pc = "thrown" /\ retry[r].calls >= 1) =>
            retry[r].lastError = retry[r].lastRaised

\* C4 as amended: when every attempt fails, the caller receives the failure of the
\* final attempt and never that of an earlier one: the very value when it is an Error,
\* and a new Error whose message is the value's string form when it is not an Error.
C4_LastFailureErrorUnchanged ==
    \A r \in Running :
        (retry[r].pc = "thrown" /\ retry[r].calls >= 1) =>
            /\ retry[r].lastRaised.origin = <<r, retry[r].calls>>
            /\ retry[r].lastRaised.isError => retry[r].lastError = retry[r].lastRaised
            /\ ~retry[r].lastRaised.isError =>
                  /\ retry[r].lastError.isError
                  /\ retry[r].lastError.name = "Error"
                  /\ retry[r].lastError.message = retry[r].lastRaised.message
                  /\ retry[r].lastError # retry[r].lastRaised
C4_Witness ==
    /\ retry # <<>>
    /\ retry[1].pc = "thrown"
    /\ retry[1].calls >= 2
    /\ ~retry[1].lastRaised.isError
    /\ retry[1].lastError.isError

\* x doubled n times
RECURSIVE Doubled(_, _)
Doubled(x, n) == IF n = 0 THEN x ELSE Doubled(x + x, n - 1)

\* C5: after the attempt with index i fails and another attempt remains, the wait is
\* baseDelay * 2^i (1000 then 2000 for baseDelay 1000 and 3 attempts); there is no
\* wait after the final failed attempt or after a success.
C5_ExponentialBackoff ==
    \A r \in Running :
        /\ \A j \in 1..Len(retry[r].delays) :
              retry[r].delays[j] = Doubled(retry[r].baseDelay, j - 1)
        /\ retry[r].pc = "backoff" =>
              /\ Len(retry[r].delays) = retry[r].failed
              /\ retry[r].timer = Doubled(retry[r].baseDelay, retry[r].attempt)
              /\ retry[r].attempt = retry[r].failed - 1
              /\ retry[r].failed < retry[r].maxRetries
        /\ retry[r].pc = "awaitFn" =>
              /\ Len(retry[r].delays) = retry[r].failed
              /\ retry[r].timer = 0
        /\ retry[r].pc = "returned" =>
              /\ Len(retry[r].delays) = retry[r].failed
              /\ retry[r].timer = 0
        /\ (retry[r].pc = "thrown" /\ retry[r].failed >= 1) =>
              /\ Len(retry[r].delays) = retry[r].failed - 1
              /\ retry[r].timer = 0
        /\ (retry[r].baseDelay = 1000 /\ retry[r].maxRetries = 3 /\ retry[r].pc = "thrown") =>
              retry[r].delays = <<1000, 2000>>
C5_Witness ==
    /\ retry # <<>>
    /\ retry[1].baseDelay = 1000
    /\ retry[1].maxRetries = 3
    /\ retry[1].pc = "thrown"
    /\ retry[1].delays = <<1000, 2000>>

\* C9 as stated: fetchWithRetry re-attempts only after an UpstreamError; after a
\* NotFoundError or an InvalidInputError it makes no further attempt and surfaces the
\* failure at once.
C9_Original ==
    \A r \in Running :
        (retry[r].failed >= 1 /\ retry[r].pc # "returned"
         /\ retry[r].lastRaised.name \in {"NotFoundError", "InvalidInputError"}) =>
            /\ retry[r].pc = "thrown"
            /\ retry[r].calls = retry[r].failed

\* C9 as amended: fetchWithRetry re-attempts after every failure, whatever its kind
\* (NotFoundError and InvalidInputError included), as long as attempts remain; a
\* failure is surfaced only when maxAttempts attempts have failed.
C9_RetriesEveryFailureKind ==
    \A r \in Running :
        /\ (retry[r].failed >= 1 /\ retry[r].failed < retry[r].maxRetries
            /\ retry[r].succeeded = 0) =>
              retry[r].pc \in {"backoff", "awaitFn"}
        /\ (retry[r].pc = "thrown" /\ retry[r].failed >= 1) =>
              retry[r].failed = retry[r].maxRetries
C9_Witness ==
    /\ retry # <<>>
    /\ retry[1].lastRaised.name = "NotFoundError"
    /\ retry[1].pc = "awaitFn"
    /\ retry[1].calls = retry[1].failed + 1

\* whether the message of error e names ticker t
Mentions(e, t) == \E k \in 1..Len(e.message) : e.message[k] = t

\* the first item whose fetchWithRetry promise rejected, 0 when none has
FirstThrown ==
    LET thrown == SelectSeq(settleOrder, LAMBDA k : retry[k].pc = "thrown")
    IN  IF thrown = <<>> THEN 0 ELSE thrown[1]

\* C1: getMarketsWithHistory is all-or-nothing: if any item's fetch fails after its
\* retries, the call fails and the caller gets no result for any item, also not for
\* items that had already succeeded; results are returned only when every item
\* succeeded.
C1_AllOrNothing ==
    /\ callPc = "returned" =>
          /\ Len(callResult) = Len(markets)
          /\ \A i \in Running : retry[i].pc = "returned"
    /\ (\E i \in Running : retry[i].fn = "getHistory" /\ retry[i].pc = "thrown") =>
          /\ callPc = "failed"
          /\ callResult = <<>>
    /\ callPc # "returned" => callResult = <<>>
C1_Witness ==
    /\ callPc = "failed"
    /\ callResult = <<>>
    /\ Len(retry) = 2
    /\ retry[1].pc = "returned"
    /\ retry[2].pc = "thrown"

\* one step of the system issues a further attempt of item r
C6_FurtherAttempt(r) ==
    /\ r \in Running
    /\ r \in DOMAIN retry'
    /\ retry'[r].calls > retry[r].calls
\* C6: within one fetchWithRetry call the attempts are strictly sequential: attempt
\* N+1 is issued only after attempt N has failed and the backoff wait after it has
\* elapsed, and no two attempts of one call are ever outstanding, also while the
\* calls of other items run concurrently.
C6_SequentialAttempts ==
    /\ [](\A r \in Running :
            /\ retry[r].outstanding <= 1
            /\ retry[r].outstanding = 1 <=> retry[r].pc = "awaitFn"
            /\ retry[r].timer # 0 => retry[r].outstanding = 0)
    /\ [][\A r \in Items :
            C6_FurtherAttempt(r) =>
                /\ retry[r].pc = "backoff"
                /\ retry[r].outstanding = 0
                /\ retry[r].timer # 0
                /\ retry[r].failed = retry[r].calls
                /\ retry'[r].calls = retry[r].calls + 1
                /\ retry'[r].timer = 0]_vars
C6_Witness ==
    /\ Len(retry) = 2
    /\ retry[1].pc = "awaitFn"
    /\ retry[1].calls = 3
    /\ retry[2].pc = "backoff"
    /\ retry[2].calls = 1

\* C7: when every item's fetch succeeds, the results are in the order of the input
\* items for every completion order of the network calls, and the i-th result pairs
\* the i-th market with the history fetched for that market's ticker.
C7_OrderPreserved ==
    callPc = "returned" =>
        /\ Len(callResult) = Len(markets)
        /\ \A i \in 1..Len(callResult) :
              /\ callResult[i].market = markets[i]
              /\ callResult[i].history.ticker = markets[i].ticker
              /\ callResult[i].history.origin = <<i, retry[i].calls>>
C7_Witness ==
    /\ callPc = "returned"
    /\ Len(callResult) = 2
    /\ settleOrder = <<2, 1>>
    /\ callResult[1].market.ticker = "B"
    /\ callResult[2].market.ticker = "A"

\* C8 as stated: a failed getMarketsWithHistory is reported as one
\* AggregateFetchError that identifies the item whose fetch failed after its retries
\* and carries that item's original error, for every kind of failure.
C8_Original ==
    (callPc = "failed" /\ retry # <<>>) =>
        /\ callError.name = "AggregateFetchError"
        /\ FirstThrown # 0
        /\ Mentions(callError, retry[FirstThrown].ticker)

\* C8 as amended: a failed getMarketsWithHistory is reported as one failure, which is
\* the original error of the first item whose fetch failed after its retries,
\* propagated as it is and not wrapped in an AggregateFetchError; it names the
\* item's ticker when that failure was a non-2xx response and carries no ticker when
\* it was a network failure or a malformed payload.
C8_FirstItemErrorUnwrapped ==
    (callPc = "failed" /\ retry # <<>>) =>
        /\ FirstThrown # 0
        /\ callError = retry[FirstThrown].lastRaised
        /\ callError.origin = <<FirstThrown, DashboardMaxRetries>>
        /\ callError.name \in {"Error", "TypeError", "SyntaxError"}
        /\ callError.name = "Error" <=> Mentions(callError, retry[FirstThrown].ticker)
C8_Witness ==
    /\ callPc = "failed"
    /\ Len(retry) = 2
    /\ FirstThrown = 2
    /\ callError.name = "TypeError"
    /\ retry[1].pc = "thrown"
    /\ retry[1].lastError.name = "Error"

\* C10 as stated: getMarketsWithHistory suspends its caller until every item's fetch
\* has settled: it neither returns nor fails while an item still has an attempt
\* outstanding, a backoff pending or attempts remaining.
C10_Original ==
    callPc \in {"returned", "failed"} => \A i \in Running : Settled(retry[i])

\* C10 as amended: getMarketsWithHistory returns only when every item's fetch has
\* succeeded, and stays suspended while no item has failed for good and some item is
\* unsettled; it fails as soon as the first item's fetch fails with its retries
\* exhausted, without waiting for the items that are still unsettled.
C10_ReturnsAfterAllFailsAtFirst ==
    /\ callPc = "returned" =>
          \A i \in Running : retry[i].pc = "returned" /\ retry[i].outstanding = 0
                             /\ retry[i].timer = 0
    /\ (callPc = "failed" /\ retry # <<>>) => \E i \in Running : retry[i].pc = "thrown"
    /\ (\E i \in Running : retry[i].fn = "getHistory" /\ retry[i].pc = "thrown") =>
          callPc = "failed"
    /\ callPc = "awaitAll" =>
          /\ \E i \in Running : ~Settled(retry[i])
          /\ \A i \in Running : retry[i].pc # "thrown"
C10_Witness ==
    /\ callPc = "failed"
    /\ Len(retry) = 2
    /\ retry[1].pc = "thrown"
    /\ retry[2].pc = "backoff"

\* C11 as stated: once getMarketsWithHistory has returned or failed, no attempt it
\* started is outstanding, no backoff wait it started is pending and no new attempt
\* is issued on its behalf.
C11_Original ==
    callPc \in {"returned", "failed"} =>
        \A i \in Running : retry[i].outstanding = 0 /\ retry[i].timer = 0

\* after a return nothing of the call is left, and no later step touches its fetches
C11_NothingAfterReturn ==
    callPc = "returned" => retry' = retry /\ callResult' = callResult
\* after a failure the rejection the caller got stays what it was
C11_FailureIsFinal ==
    callPc = "failed" =>
        callPc' = "failed" /\ callError' = callError /\ callResult' = callResult
\* C11 as amended: once getMarketsWithHistory has returned, no attempt it started is
\* outstanding, no backoff wait is pending and no new attempt is issued; once it has
\* failed, the fetches of the other items go on in the background (attempts
\* outstanding, backoff waits pending, new attempts issued) until each has succeeded
\* or used up its own attempts, and none of that changes what the caller received.
C11_WorkOutlivesOnlyFailedCall ==
    /\ [](callPc = "returned" =>
            \A i \in Running : retry[i].outstanding = 0 /\ retry[i].timer = 0)
    /\ [](\A i \in Running :
            retry[i].fn = "getHistory" => retry[i].calls <= DashboardMaxRetries)
    /\ [][C11_NothingAfterReturn]_vars
    /\ [][C11_FailureIsFinal]_vars
C11_Witness ==
    /\ callPc = "failed"
    /\ Len(retry) = 2
    /\ retry[2].pc = "thrown"
    /\ retry[1].pc = "awaitFn"
    /\ retry[1].outstanding = 1
    /\ retry[1].calls = 2

\* the step in which the market list arrives and the history fetches are launched
C12_Launch == callPc = "awaitMarkets" /\ callPc' # "failed"
\* C12: getMarketsWithHistory launches all item fetches concurrently: the first
\* attempt of every item is issued before any response is awaited, so with N items N
\* requests can be outstanding at once.
C12_AllLaunchedAtOnce ==
    /\ [][C12_Launch =>
            /\ Len(retry') = Len(markets')
            /\ \A i \in DOMAIN retry' :
                  /\ retry'[i].calls = 1
                  /\ retry'[i].outstanding = 1
                  /\ retry'[i].pc = "awaitFn"
                  /\ retry'[i].ticker = markets'[i].ticker]_vars
    /\ [](\A i \in Running : retry[i].fn = "getHistory" => retry[i].calls >= 1)
C12_Witness ==
    /\ callPc = "awaitAll"
    /\ Len(retry) = MaxMarkets
    /\ \A i \in Running : retry[i].outstanding = 1 /\ retry[i].calls = 1

\* ------------------------------------------------ claims on transformRawHistory
\* transformRawHistory has been called on givenRaw
Normalized == normPc # "idle"
\* the raw records of givenRaw that have a close, in input order
Surviving == SelectSeq(givenRaw.candlesticks, LAMBDA c : c.price.close # NullNum)

\* C13: both change figures come only from the first and the last surviving candle:
\* price_change_30d = close[last] - close[first] and price_change_pct is that
\* difference divided by close[first], times 100; both are 0 with fewer than 2
\* surviving candles and price_change_pct is 0 when the first surviving close is 0.
C13_ChangeFromFirstAndLast ==
    Normalized =>
        LET n == Len(Surviving)
            first == Surviving[1].price.close
            last == Surviving[n].price.close
            pct == normalized.price_change_pct
        IN  /\ pct.den > 0
            /\ n < 2 => normalized.price_change_30d = 0 /\ pct.num = 0
            /\ n >= 2 => normalized.price_change_30d = last - first
            /\ n >= 2 /\ first = 0 => pct.num = 0
            /\ n >= 2 /\ first # 0 => pct.num * first = (last - first) * 100 * pct.den
\* a no-trade day followed by closes 30 and 36 gives 6 and 20 percent
C13_Witness ==
    /\ normPc = "normalized"
    /\ Len(givenRaw.candlesticks) = 3
    /\ givenRaw.candlesticks[1].price.close = NullNum
    /\ givenRaw.candlesticks[2].price.close = 30
    /\ givenRaw.candlesticks[3].price.close = 36
    /\ normalized.price_change_30d = 6
    /\ normalized.price_change_pct = [num |-> 20, den |-> 1]

\* C14: the candles are exactly the raw records whose close is present, one candle per
\* such record and in input order; records without a close are dropped and no other
\* record is; days is the number of candles.
C14_ExactlyRecordsWithClose ==
    Normalized =>
        /\ Len(normalized.candles) = Len(Surviving)
        /\ Len(normalized.candles) =
              Cardinality({i \in DOMAIN givenRaw.candlesticks :
                               givenRaw.candlesticks[i].price.close # NullNum})
        /\ normalized.days = Len(normalized.candles)
        /\ \A i \in DOMAIN normalized.candles :
              /\ normalized.candles[i].close = Surviving[i].price.close
              /\ normalized.candles[i].volume = Surviving[i].volume
              /\ ParseISO(normalized.candles[i].date) = Surviving[i].end_period_ts * 1000
\* a record without a close is dropped while one with a close of 0 is kept
C14_Witness ==
    /\ normPc = "normalized"
    /\ Len(givenRaw.candlesticks) = 3
    /\ givenRaw.candlesticks[1].price.close = 0
    /\ givenRaw.candlesticks[2].price.close = NullNum
    /\ givenRaw.candlesticks[3].price.close = 36
    /\ normalized.days = 2

\* C15 as stated: the open of a candle is the record's own open when present and the
\* previous period's close (the record's previous) otherwise; high and low are the
\* record's own when present and its close otherwise; close is the record's close.
C15_Original ==
    Normalized =>
        \A i \in DOMAIN normalized.candles :
            LET p == Surviving[i].price
                c == normalized.candles[i]
            IN  /\ c.open = IF p.open # NullNum THEN p.open ELSE p.previous
                /\ c.high = IF p.high # NullNum THEN p.high ELSE p.close
                /\ c.low = IF p.low # NullNum THEN p.low ELSE p.close
                /\ c.close = p.close

\* C15 as amended: the open of a candle is the record's own open when present,
\* otherwise the record's previous when that is present, otherwise 0; high and low are
\* the record's own when present and its close otherwise; close is the record's close.
C15_OpenFallsBackToPreviousThenZero ==
    Normalized =>
        \A i \in DOMAIN normalized.candles :
            LET p == Surviving[i].price
                c == normalized.candles[i]
            IN  /\ c.open = IF p.open # NullNum THEN p.open
                            ELSE IF p.previous # NullNum THEN p.previous ELSE 0
                /\ c.high = IF p.high # NullNum THEN p.high ELSE p.close
                /\ c.low = IF p.low # NullNum THEN p.low ELSE p.close
                /\ c.close = p.close
\* one record without open, high and low but with previous, one without previous too
C15_Witness ==
    /\ normPc = "normalized"
    /\ Len(givenRaw.candlesticks) = 2
    /\ givenRaw.candlesticks[1].price =
          [open |-> NullNum, high |-> NullNum, low |-> NullNum, close |-> 30,
           previous |-> 25]
    /\ givenRaw.candlesticks[2].price =
          [open |-> NullNum, high |-> NullNum, low |-> NullNum, close |-> 36,
           previous |-> NullNum]
    /\ normalized.candles[1].open = 25
    /\ normalized.candles[1].high = 30
    /\ normalized.candles[2].open = 0
    /\ normalized.candles[2].low = 36

\* C16: transformRawHistory is idempotent on its own output: the candles of a
\* PriceHistory it produced, given back as raw records with every field present and
\* normalized again, give the same candles and the same change figures.
C16_Idempotent ==
    normPc = "renormalized" =>
        /\ renormalized.candles = normalized.candles
        /\ renormalized.days = normalized.days
        /\ renormalized.price_change_30d = normalized.price_change_30d
        /\ renormalized.price_change_pct = normalized.price_change_pct
\* the first pass dropped a record and filled in missing fields; the second changed nothing
C16_Witness ==
    /\ normPc = "renormalized"
    /\ Len(givenRaw.candlesticks) = 3
    /\ Len(normalized.candles) = 2
    /\ \E i \in DOMAIN givenRaw.candlesticks :
          /\ givenRaw.candlesticks[i].price.close # NullNum
          /\ givenRaw.candlesticks[i].price.open = NullNum
    /\ normalized.price_change_30d # 0
    /\ renormalized = normalized

\* the period ends of a sequence of candles, in milliseconds
PeriodEnds(candles) == [i \in DOMAIN candles |-> ParseISO(candles[i].date)]
\* strictly increasing: chronological and without duplicates
Chronological(ts) == \A i, j \in DOMAIN ts : i < j => ts[i] < ts[j]

\* C17 as stated: the candles of every PriceHistory transformRawHistory returns are in
\* chronological order of period end and no two have the same period end.
C17_Original ==
    Normalized => Chronological(PeriodEnds(normalized.candles))

\* C17 as amended: transformRawHistory neither sorts nor removes duplicates: the
\* candles carry the period ends of the surviving raw records in input order, so they
\* are chronological and free of duplicates exactly when those records are.
C17_KeepsInputOrder ==
    Normalized =>
        /\ PeriodEnds(normalized.candles) =
              [i \in DOMAIN Surviving |-> Surviving[i].end_period_ts * 1000]
        /\ Chronological(PeriodEnds(normalized.candles))
              <=> Chronological([i \in DOMAIN Surviving |-> Surviving[i].end_period_ts])
\* records listed newest first come out newest first
C17_Witness ==
    /\ normPc = "normalized"
    /\ Len(normalized.candles) = 3
    /\ ParseISO(normalized.candles[1].date) > ParseISO(normalized.candles[2].date)
    /\ ParseISO(normalized.candles[2].date) > ParseISO(normalized.candles[3].date)

\* ------------------------------------------------ claims on the market list
\* getMarkets has returned the array the upstream answered with
MarketsKnown ==
    \/ callPc \in {"awaitAll", "returned"}
    \/ callPc = "failed" /\ callError.origin # <<>>

C19_Original ==
    limit <= 0 /\ callPc # "idle" =>
        callPc = "failed" /\ callError.name = "InvalidInputError"

\* a call of getMarketsWithHistory always issues the /markets request
C19_RequestIssued == callPc = "idle" /\ callPc' # "idle" => callPc' = "awaitMarkets"
\* C19 as amended: the limit is not validated; whatever it is, the /markets request is
\* issued and no InvalidInputError is ever raised.  With limit 0 and a successful
\* answer the call returns an empty array without fetching any history; with a
\* negative limit the answer without its last -limit entries is used.
C19_LimitNotValidated ==
    /\ [][C19_RequestIssued]_vars
    /\ [](callError.name # "InvalidInputError")
    /\ [](limit = 0 /\ MarketsKnown =>
            callPc = "returned" /\ callResult = <<>> /\ retry = <<>>)
    /\ [](limit < 0 /\ MarketsKnown =>
            markets = SubSeq(fetched, 1,
                             IF Len(fetched) + limit < 0 THEN 0 ELSE Len(fetched) + limit))
\* a negative limit went to the upstream and cut the last market off the answer
C19_Witness ==
    /\ limit < 0
    /\ callPc = "returned"
    /\ Len(fetched) = 2
    /\ Len(callResult) = 1

\* C20 as documented: the history retry has no cap on its attempts, so a dashboard
\* load never fails because a history fetch failed.
C20_Documented ==
    /\ callPc = "failed" => callError.origin = <<>>
    /\ \A i \in Running :
          retry[i].fn = "getHistory" /\ retry[i].failed > 0 /\ retry[i].succeeded = 0
              => retry[i].pc # "thrown"

\* the step in which the /markets request of the call fails
C27_ListFails == callPc = "awaitMarkets" /\ callPc' = "failed"
\* C27: getMarketsWithHistory issues the /markets request exactly once and before any
\* history request: no history request is issued until the list has arrived, and when
\* the list request fails the call fails with that error, without issuing the request
\* again and without any history request.
C27_ListOnceAndFirst ==
    /\ [](callPc # "idle" => marketsCalls = 1)
    /\ [](callPc = "awaitMarkets" => retry = <<>>)
    /\ [](\A i \in Running : retry[i].fn = "getHistory" => MarketsKnown)
    /\ [][C27_ListFails =>
            /\ retry' = <<>>
            /\ marketsCalls' = 1
            /\ \E res \in MarketsResponses :
                  ~GetMarkets(res).ok /\ callError' = GetMarkets(res).error]_vars
    /\ [](callPc = "failed" /\ ~MarketsKnown => retry = <<>>)
\* the list request failed and the call failed with it, no history request issued
C27_Witness ==
    /\ callPc = "failed"
    /\ callError.message = <<"Failed to fetch markets">>
    /\ marketsCalls = 1
    /\ retry = <<>>

\* C28 as stated: for every maxRetries, 0 and negative values included, fetchWithRetry
\* calls the fetch function at least once, and a failure it reports is the failure one
\* of its own attempts raised, never a null or empty error.
C28_Stated ==
    \A i \in Running :
        retry[i].fn = "generic" =>
            /\ retry[i].calls >= 1
            /\ retry[i].pc = "thrown" =>
                  /\ retry[i].lastError # Null
                  /\ retry[i].lastError.origin \in {<<i, n>> : n \in 1..retry[i].calls}

\* ------------------------------------------------ claims on the dashboard page
Runs == 1..MaxRuns
\* the fetchData runs whose getMarketsWithHistory call is in flight
RunsInFlight == {k \in DOMAIN dash.calls : InFlight(dash.calls[k])}
\* the step in which the call of run k returns or fails, so that run k ends
RunEnds(k) ==
    /\ k \in DOMAIN dash.calls
    /\ InFlight(dash.calls[k])
    /\ ~InFlight(dash'.calls[k])
\* the result of call c holds every market of the list with that market's history
CompleteBatch(c) ==
    /\ Len(c.result) = Len(c.markets)
    /\ \A i \in DOMAIN c.markets :
          /\ c.result[i].market = c.markets[i]
          /\ c.result[i].history.ticker = c.markets[i].ticker

\* how a run of fetchData ends
C25_RunEndsInOneOfTwo ==
    \A k \in Runs :
        RunEnds(k) =>
            /\ dash'.loading = FALSE
            /\ dash'.calls[k].pc = "returned" =>
                  /\ dash'.markets = dash'.calls[k].result
                  /\ CompleteBatch(dash'.calls[k])
                  /\ dash'.error = NoError
            /\ dash'.calls[k].pc = "failed" =>
                  /\ dash'.error # NoError
                  /\ dash'.error = dash'.calls[k].error.message
                  /\ dash'.markets = dash.markets
\* the list of the page changes only when a run ends with a returned call
C25_MarketsOnlyOnSuccess ==
    dash'.markets # dash.markets =>
        \E k \in Runs : RunEnds(k) /\ dash'.calls[k].pc = "returned"
\* C25: every run of the dashboard's fetchData ends with loading = false and in one of
\* two ways: the call returned, markets is the complete fetched batch and error is
\* null; or the call failed, error is the failure message and markets is what it was
\* before the run, never a partial batch.
C25_AllOrPrevious ==
    /\ [][C25_RunEndsInOneOfTwo]_vars
    /\ [][C25_MarketsOnlyOnSuccess]_vars
    /\ [](dash.mounted /\ RunsInFlight = {} => ~dash.loading)
\* a first run filled the list, a second run failed and left it as it was
C25_Witness ==
    /\ Len(dash.calls) = 2
    /\ dash.calls[1].pc = "returned"
    /\ dash.calls[2].pc = "failed"
    /\ dash.calls[2].retry # <<>>
    /\ dash.markets = dash.calls[1].result
    /\ Len(dash.markets) = 2
    /\ dash.error # NoError
    /\ ~dash.loading

\* the step in which fetchData is called from a click
C29_Triggered == dash.mounted /\ Len(dash'.calls) > Len(dash.calls)
\* C29: on the dashboard at most one getMarketsWithHistory call is in flight at any
\* time: fetchData is triggered only while loading is false, because Refresh is
\* disabled while loading and the error banner is shown only after a failure was
\* recorded and loading was reset.
C29_OneCallInFlight ==
    /\ [](Cardinality(RunsInFlight) <= 1)
    /\ [](BannerShown(dash) => ~dash.loading)
    /\ [](dash.mounted => (dash.loading <=> RunsInFlight # {}))
    /\ [][C29_Triggered => ~dash.loading /\ RunsInFlight = {}]_vars
\* a retry after a failure: the new call is the only one in flight, while a history
\* fetch of the failed call is still waiting for its answer
C29_Witness ==
    /\ Len(dash.calls) = 2
    /\ dash.calls[1].pc = "failed"
    /\ \E i \in DOMAIN dash.calls[1].retry : dash.calls[1].retry[i].outstanding = 1
    /\ dash.calls[2].pc = "awaitAll"
    /\ dash.loading
    /\ RunsInFlight = {2}

\* ------------------------------------------ claims on the metrics engine
MetricsDone == metrics.pc = "done"
InRange(p) == 0 <= p /\ p <= ProbScale

\* C21: computeMetrics fails with InvalidInputError, and gives no metrics bundle, for
\* every trueProbability outside [0, 1]; for every trueProbability inside the range,
\* 0.0 and 1.0 included, it gives a bundle that carries the probability as it was given.
C21_RangeChecked ==
    MetricsDone =>
        /\ ~InRange(metrics.p) => metrics.result = InvalidInputError
        /\ InRange(metrics.p) =>
              /\ DOMAIN metrics.result =
                    {"spreadCost", "trueProbability", "alpha", "expectedValue", "kellyFraction"}
              /\ metrics.result.trueProbability = metrics.p

\* computeMetrics was called with 1.0001 and failed
C21_Witness ==
    /\ MetricsDone
    /\ metrics.p = ProbScale + 1
    /\ metrics.result = InvalidInputError

\* the raw Kelly value for buying YES at the ask is negative
YesKellyNegative(q, p) == p * MaxPrice - ProbScale * q.ask < 0

\* the reported fraction lies in [0, 1]
InUnitInterval(f) == f.den > 0 /\ 0 <= f.num /\ f.num <= f.den

Pair(c) == <<c.request.timestamp, c.request.signature>>

RunSettlesNow(k) ==
    /\ k \in DOMAIN detail.runs
    /\ k \in DOMAIN detail'.runs
    /\ RunPending(detail.runs[k])
    /\ ~RunPending(detail'.runs[k])

\* what one run asks the page to show as its error
RunError(r) ==
    IF r.market = "rejected" THEN <<"Market not found: ", r.ticker>>
    ELSE IF r.history = "rejected" THEN <<"Failed to load price history">>
    ELSE NoError

\* C24: when a fetchData run of the ticker detail page reaches its end, all three of
\* its fetches have settled; the page's error is set exactly when the market or the
\* history fetch of the run failed, with the market message first; and when only the
\* estimate fetch failed the error is not set, estimate is null and the detail card
\* is displayed with the market and the history of the run.
C24_Stated ==
    [][\A k \in 1..MaxRuns : RunSettlesNow(k) =>
          LET r == detail'.runs[k]
          IN  /\ detail'.error = RunError(r)
              /\ (r.market = "fulfilled" /\ r.history = "fulfilled"
                    /\ r.estimate = "rejected") =>
                    /\ detail'.estimate = NullData
                    /\ CardShown(detail')
                    /\ detail'.market = DataOf("market", r.ticker)
                    /\ detail'.history = DataOf("history", r.ticker)]_vars

\* C26: when every fetch of the ticker detail page has settled, the error, market,
\* history and estimate on display are those the run of the latest ticker produced,
\* and loading is never false while the run of the latest ticker is in flight.
C26_Stated ==
    detail.runs # <<>> =>
        LET last == detail.runs[Len(detail.runs)]
        IN  /\ RunPending(last) => detail.loading
            /\ (\A k \in DOMAIN detail.runs : ~RunPending(detail.runs[k])) =>
                  /\ detail.error = RunError(last)
                  /\ last.market = "fulfilled" => detail.market = DataOf("market", last.ticker)
                  /\ (last.market = "fulfilled" /\ last.history = "fulfilled") =>
                        /\ detail.history = DataOf("history", last.ticker)
                        /\ detail.estimate = IF last.estimate = "fulfilled"
                                             THEN DataOf("estimate", last.ticker)
                                             ELSE NullData

\* ----------------------------------------------------- claims on the app shell
\* C30: the splash starts shown; the content is visible exactly when the splash is
\* not shown; a mounted AppShell never shows the splash again once it is dismissed;
\* and the splash is dismissed only by its completion timer, which records
\* splashShown, or by the mount effect finding splashShown recorded.
C30_SplashOnlyDismissed ==
    /\ shell.showSplash
    /\ [](shell.contentReady = ~shell.showSplash)
    /\ [][/\ (~shell.showSplash /\ shell'.mounted) => ~shell'.showSplash
          /\ (shell.showSplash /\ ~shell'.showSplash) =>
                /\ splashShown'
                /\ \/ ~shell.mounted /\ splashShown
                   \/ shell.splash = [phase |-> "fade-out", timers |-> {"complete"}]]_vars

\* a mounted AppShell whose splash is dismissed, with splashShown recorded
C30_Witness ==
    /\ shell.mounted
    /\ ~shell.showSplash
    /\ shell.contentReady
    /\ splashShown

====
